---- MODULE Spec2Model ----
(***************************************************************************)
(* Landsat scene selection (src/src/landsat/processing.py).                *)
(*                                                                         *)
(* analyze_coverage filters the catalog's scenes by their overlap with the *)
(* area of interest, sorts them by cloud cover and walks the sorted list   *)
(* once, keeping at most one scene per path_row while the dates of the     *)
(* kept scenes stay within window_days.                                    *)
(*                                                                         *)
(* Geometry: the plane is a row of unit cells, a polygon or a footprint is *)
(* a set of cells, its area the number of cells.  Dates are day numbers    *)
(* (every feature of the catalog carries a datetime).  A percentage is the *)
(* whole part of the code's float, (100 * a) \div b: min_area is a whole   *)
(* number, so the filter decides as the float does.                        *)
(***************************************************************************)
EXTENDS Integers, Sequences, FiniteSets, TLC

\* ---- bounds of the model ----
MaxScenes == 3      \* features in the catalog
MaxDate == 1        \* acquisition days 0..MaxDate
MaxCloud == 1       \* eo:cloud_cover values 0..MaxCloud
MaxWindow == 0      \* window_days values 0..MaxWindow passed by a direct caller
NumCells == 2       \* cells of the plane
MaxCalls == 2       \* calls of analyze_coverage on the same inputs
MaxSources == 3     \* files of one band handed to build_mosaic_per_band
NumPixels == 2      \* pixels of the mosaic's grid

\* ---- program constants ----
DefaultWindowDays == 120    \* analyze_coverage(..., window_days=120, ...)
DefaultMinArea == 0         \* process_metadata(features, min_area=0)

Cells == 1..NumCells
PathRows == {"A", "B"}
\* min_area values a direct caller passes: the default (every scene passes) and
\* one that only a scene covering more than half of the polygon passes
MinAreas == {DefaultMinArea, 60}

\* A catalog feature as analyze_coverage reads it: properties landsat:wrs_path
\* and landsat:wrs_row (joined as path_row), datetime (its day), eo:cloud_cover
\* and the geometry (a non-empty footprint).
Feature == [path_row : PathRows, date : 0..MaxDate, cloud : 0..MaxCloud,
            footprint : (SUBSET Cells) \ {{}}]

Catalogs == UNION {[1..n -> Feature] : n \in 0..MaxScenes}

VARIABLES
    features,            \* the catalog: a sequence of Feature; a scene's id is its index
    polygon,             \* the area of interest: a non-empty set of cells
    min_area,            \* parameters of analyze_coverage
    window_days,
    delete_out_range,
    caller,              \* "process_metadata" or "direct"
    sort_order,          \* the order the build's sort_values leaves the catalog's rows in
    pc,                  \* "start", "loop", "done", "failed"
    scenes_df,           \* the sorted rows (feature indices)
    idx,                 \* position of the loop in scenes_df
    selected_path_rows,
    best_rows,           \* committed rows (feature indices), in commit order
    total_coverage_percent,
    scenes_needed,       \* the returned selection (feature indices)
    calls,               \* how many times analyze_coverage was entered
    prev_result,         \* what the previous call returned
    \* build_mosaic_per_band (src/src/landsat/mosaic.py)
    band_files,          \* the (file, cloud_cover) pairs of one band
    sorted_files,        \* indices of band_files in the order handed to the engine
    mpc,                 \* position in build_mosaic_per_band
    engine_calls,        \* the engine calls made so far, with their outcome
    vrt,                 \* the virtual mosaic: per pixel the file it is read from
    output_mosaic,       \* the GeoTIFF written, NoFile until it is
    \* determine_required_bands (src/src/landsat/downloader.py)
    selected_indices,    \* the index names asked for
    required_bands,      \* the dictionary band -> collection
    rpc,                 \* position in determine_required_bands
    \* download_data (src/src/controllers/landsat_controller.py)
    scenes,              \* the list of scene dictionaries to process
    dpc,                 \* position in download_data
    \* the clip loop of generate_mosaics_and_clips and extract_mosaic_by_polygon
    \* (src/src/landsat/mosaic.py)
    processed_mosaics,   \* the mosaic files, one per band
    polygon_file,        \* the file of the area of interest
    poligono_gdf,        \* the GeoDataFrame read from polygon_file
    clip_files,          \* clip_<band>.tif of each band, NoFile until written
    mask_file,           \* aoi_mask.tif, NoFile until written
    created_clips,       \* the bands extract_mosaic_by_polygon returned a path for
    band,                \* the band the loop is at
    cpc,                 \* position in extract_mosaic_by_polygon
    \* generate_mosaics (src/src/controllers/landsat_controller.py) and
    \* generate_mosaics_and_clips (src/src/landsat/mosaic.py)
    entry,               \* which of the two functions is running
    total_bands,         \* len(sorted_bands): the band keys are 1..total_bands
    left_over,           \* the files an earlier run left in the output folders
    stop_requested,
    gpc,                 \* position of the generator
    band_i,              \* the position of the running loop in its dictionary
    mosaicos,            \* processed_mosaics: the band keys, in insertion order
    recortes,            \* created_clips: the band keys, in insertion order
    written,             \* how many times this run wrote each file
    outcome,             \* per band operation: "none", "ok", "failed"
    after_stop,          \* the band operations started when stop_requested held
    results,             \* the dictionary returned, NoFile until it is
    \* MapAppWindow, ProcessThread and SecondProcessThread (src/src/ui/interface.py)
    process_button,      \* isEnabled() of the two buttons
    calculate_button,
    threads,             \* the threads started so far, finished ones included
    signals,             \* the emitted signals the main thread has not handled yet
    \* get_scenes_by_band and the sort of build_mosaic_per_band
    \* (src/src/landsat/mosaic.py)
    scene_dirs,          \* the scene_* folders: what each holds as metadata
    scan_i,              \* the folder the loop of get_scenes_by_band is at
    scanned,             \* sorted_bands[band_key]: one (file, cloud_cover) per folder
    spc,                 \* position: "scan", "sort", "sorted", "raised", "type_error"
    scan_order,          \* the order sorted() returns
    \* process_indices_from_cutouts (src/src/landsat/indices.py)
    clip_bands,          \* the bands that have a clip file in clips_path
    calculable_indices,
    missing_bands_info,  \* index -> its missing bands, for the indices that have some
    output_files,        \* index -> "paths" (tiff and png only) or "stats" (complete)
    ipc,                 \* position in process_indices_from_cutouts
    index_i,             \* position of the loop in calculable_indices
    attempted,           \* the indices whose calculation was entered
    computed,            \* the indices whose GeoTIFF, PNG and statistics were made
    \* download_images (src/src/landsat/downloader.py)
    attempts,            \* the downloads tried: (path_row, date), feature, collection
    \* the band operations of mosaic.py run side by side
    grids,               \* band -> the grid of its source files
    wpc,                 \* band -> the position of its worker
    disk,                \* file -> its content
    writers,             \* file -> the bands whose operations wrote it
    mask_open,           \* the bands that have aoi_mask.tif open for writing
    overlapped           \* the bands whose write of aoi_mask.tif met another one

vars == <<features, polygon, min_area, window_days, delete_out_range, caller,
          sort_order, pc, scenes_df, idx, selected_path_rows, best_rows,
          total_coverage_percent, scenes_needed, calls, prev_result,
          band_files, sorted_files, mpc, engine_calls, vrt, output_mosaic,
          selected_indices, required_bands, rpc, scenes, dpc,
          processed_mosaics, polygon_file, poligono_gdf, clip_files, mask_file,
          created_clips, band, cpc,
          entry, total_bands, left_over, stop_requested, gpc, band_i, mosaicos,
          recortes, written, outcome, after_stop, results,
          process_button, calculate_button, threads, signals,
          scene_dirs, scan_i, scanned, spc, scan_order,
          clip_bands, calculable_indices, missing_bands_info, output_files, ipc,
          index_i, attempted, computed, attempts,
          grids, wpc, disk, writers, mask_open, overlapped>>

inputs == <<features, polygon, min_area, window_days, delete_out_range, caller,
            sort_order>>
history == <<calls, prev_result>>
locals == <<scenes_df, idx, selected_path_rows, best_rows>>
returned == <<total_coverage_percent, scenes_needed>>
selector_vars == <<inputs, pc, locals, returned, history>>
mosaic_vars == <<band_files, sorted_files, mpc, engine_calls, vrt, output_mosaic>>
\* the variables of the stages after the selection
resolver_vars == <<selected_indices, required_bands, rpc>>
download_vars == <<scenes, dpc>>
clip_vars == <<processed_mosaics, polygon_file, poligono_gdf, clip_files, mask_file,
               created_clips, band, cpc>>
\* the variables of the processing run
generate_vars == <<entry, total_bands, left_over, stop_requested, gpc, band_i,
                   mosaicos, recortes, written, outcome, after_stop, results>>
window_vars == <<process_button, calculate_button, threads, signals>>
scan_vars == <<scene_dirs, scan_i, scanned, spc, scan_order>>
indices_vars == <<clip_bands, calculable_indices, missing_bands_info, output_files,
                  ipc, index_i, attempted, computed>>
images_vars == <<attempts>>
workers_vars == <<grids, wpc, disk, writers, mask_open, overlapped>>
run_stages == <<generate_vars, window_vars, scan_vars, indices_vars, images_vars,
                workers_vars>>
stages == <<mosaic_vars, resolver_vars, download_vars, clip_vars, run_stages>>

\* a file that was not written
NoFile == "none"

\* an empty dictionary
EmptyDict == [b \in {} |-> "sr"]

\* ---- a stage that is not running ----
ResolverIdle ==
    /\ selected_indices = <<>>
    /\ required_bands = EmptyDict
    /\ rpc = "idle"

DownloadIdle ==
    /\ scenes = <<>>
    /\ dpc = "idle"

ClipIdle ==
    /\ processed_mosaics = <<>>
    /\ polygon_file = NoFile
    /\ poligono_gdf = NoFile
    /\ clip_files = <<>>
    /\ mask_file = NoFile
    /\ created_clips = {}
    /\ band = 0
    /\ cpc = "idle"

MosaicIdle ==
    /\ band_files = <<>>
    /\ sorted_files = <<>>
    /\ mpc = "idle"
    /\ engine_calls = <<>>
    /\ vrt = NoFile
    /\ output_mosaic = NoFile

GenerateIdle ==
    /\ entry = "none"
    /\ total_bands = 0
    /\ left_over = {}
    /\ stop_requested = FALSE
    /\ gpc = "idle"
    /\ band_i = 0
    /\ mosaicos = <<>>
    /\ recortes = <<>>
    /\ written = <<>>
    /\ outcome = <<>>
    /\ after_stop = {}
    /\ results = NoFile

WindowIdle ==
    /\ process_button = FALSE
    /\ calculate_button = FALSE
    /\ threads = <<>>
    /\ signals = <<>>

ScanIdle ==
    /\ scene_dirs = <<>>
    /\ scan_i = 0
    /\ scanned = <<>>
    /\ spc = "idle"
    /\ scan_order = <<>>

IndicesIdle ==
    /\ clip_bands = {}
    /\ calculable_indices = <<>>
    /\ missing_bands_info = <<>>
    /\ output_files = <<>>
    /\ ipc = "idle"
    /\ index_i = 0
    /\ attempted = {}
    /\ computed = {}

ImagesIdle == attempts = {}

WorkersIdle ==
    /\ grids = <<>>
    /\ wpc = <<>>
    /\ disk = <<>>
    /\ writers = <<>>
    /\ mask_open = {}
    /\ overlapped = {}

RunIdle ==
    /\ GenerateIdle
    /\ WindowIdle
    /\ ScanIdle
    /\ IndicesIdle
    /\ ImagesIdle
    /\ WorkersIdle

\* ---- helpers ----
Area(s) == Cardinality(s)

Range(s) == {s[k] : k \in 1..Len(s)}

Min(S) == CHOOSE x \in S : \A y \in S : x <= y
Max(S) == CHOOSE x \in S : \A y \in S : x >= y

Permutations_(n) == {p \in [1..n -> 1..n] : \A a, b \in 1..n : a # b => p[a] # p[b]}

\* polygon.area
polygon_area == Area(polygon)

\* intersection = polygon.intersection(footprint); intersection.area
intersection_area(f) == Area(polygon \cap features[f].footprint)

\* coverage_percent = (intersection_area / polygon_area) * 100
coverage_percent(f) == (intersection_area(f) * 100) \div polygon_area

PassesFilterIntersects(f) == intersection_area(f) > 0

\* if coverage_percent >= min_area: all_scenes.append(...)
PassesFilter(f) == coverage_percent(f) >= min_area

\* all_scenes: the rows that pass the filter, in catalog order
all_scenes == SelectSeq([k \in 1..Len(features) |-> k], PassesFilter)

CloudSortedDescending(cat, p) ==
    \A a, b \in 1..Len(cat) : a < b => cat[p[a]].cloud >= cat[p[b]].cloud

\* sort_values(by=["cloud_cover"]) is ascending
CloudSorted(cat, p) ==
    \A a, b \in 1..Len(cat) : a < b => cat[p[a]].cloud <= cat[p[b]].cloud

\* The default kind of sort_values is quicksort, which is not stable: rows of
\* equal cloud cover come out in an order the build's sort decides.  These are
\* the orders it can leave a catalog's rows in.
SortOutcomes(cat) == {p \in Permutations_(Len(cat)) : CloudSorted(cat, p)}

\* the one order a stable sort gives
StableOrder(cat) ==
    CHOOSE p \in SortOutcomes(cat) :
        \A a, b \in 1..Len(cat) : (a < b /\ cat[p[a]].cloud = cat[p[b]].cloud) => p[a] < p[b]

InAllScenes(f) == f \in Range(all_scenes)

SortValuesPerCall ==
    IF calls = 1 THEN SelectSeq(sort_order, InAllScenes)
    ELSE SelectSeq(StableOrder(features), InAllScenes)

\* scenes_df = scenes_df.sort_values(by=["cloud_cover"])
SortValues == SelectSeq(sort_order, InAllScenes)

\* (max_date - min_date).days over a list of rows
DateSpanOfRows(rows) == LET ds == {features[r].date : r \in Range(rows)}
                        IN Max(ds) - Min(ds)

AlreadySelectedById(r) == r \in Range(best_rows)

\* row["path_row"] in selected_path_rows
AlreadySelected(r) == features[r].path_row \in selected_path_rows

OutOfRangeBeforeAdding(r) ==
    best_rows # <<>> /\ DateSpanOfRows(best_rows) > window_days

\* temp_selection = best_rows + [row]; (max_date - min_date).days > window_days
OutOfRange(r) == DateSpanOfRows(Append(best_rows, r)) > window_days

RECURSIVE SummedIntersections(_)
SummedIntersections(rows) ==
    IF rows = <<>> THEN 0
    ELSE intersection_area(Head(rows)) + SummedIntersections(Tail(rows))

FinalCoverageSummed(rows) == (SummedIntersections(rows) * 100) \div polygon_area

\* final_coverage from unary_union(selected_footprints), or 0 when nothing is selected
FinalCoverage(rows) ==
    IF rows = <<>> THEN 0
    ELSE LET final_combined == UNION {features[r].footprint : r \in Range(rows)}
             final_intersection == polygon \cap final_combined
         IN (Area(final_intersection) * 100) \div polygon_area

\* what a call hands back: the exception, or the dictionary's selection and coverage
NoResult == [status |-> "none", scenes |-> <<>>, coverage |-> 0]
Result == IF pc = "failed" THEN [status |-> "failed", scenes |-> <<>>, coverage |-> 0]
          ELSE [status |-> "done", scenes |-> scenes_needed,
                coverage |-> total_coverage_percent]

\* ---- the state when the caller has its inputs ----
Init ==
    /\ features \in Catalogs
    /\ polygon \in {1..k : k \in 1..NumCells}
    /\ \/ /\ caller = "process_metadata"
          /\ min_area = DefaultMinArea
          /\ window_days = DefaultWindowDays
          /\ delete_out_range = TRUE
       \/ /\ caller = "direct"
          /\ min_area \in MinAreas
          /\ window_days \in 0..MaxWindow
          /\ delete_out_range \in BOOLEAN
    /\ sort_order \in SortOutcomes(features)
    /\ pc = "start"
    /\ scenes_df = <<>>
    /\ idx = 0
    /\ selected_path_rows = {}
    /\ best_rows = <<>>
    /\ total_coverage_percent = 0
    /\ scenes_needed = <<>>
    /\ calls = 1
    /\ prev_result = NoResult
    /\ MosaicIdle
    /\ ResolverIdle
    /\ DownloadIdle
    /\ ClipIdle
    /\ RunIdle

\* ---- process_metadata ----
\* if not features: ... raise Exception(msg), before analyze_coverage is called
RaiseNoFeatures ==
    /\ pc = "start"
    /\ caller = "process_metadata"
    /\ features = <<>>
    /\ pc' = "failed"
    /\ UNCHANGED <<stages, inputs, history, locals, returned>>

\* ---- analyze_coverage ----
Entered == pc = "start" /\ ~(caller = "process_metadata" /\ features = <<>>)

\* if scenes_df.empty: raise Exception(msg)
RaiseEmpty ==
    /\ Entered
    /\ all_scenes = <<>>
    /\ pc' = "failed"
    /\ UNCHANGED <<stages, inputs, history, locals, returned>>

\* the filter, the sort, then selected_path_rows = set(); best_rows = []
SortScenes ==
    /\ Entered
    /\ all_scenes # <<>>
    /\ scenes_df' = SortValues
    /\ idx' = 1
    /\ selected_path_rows' = {}
    /\ best_rows' = <<>>
    /\ pc' = "loop"
    /\ UNCHANGED <<stages, inputs, history, returned>>

\* for _, row in scenes_df.iterrows()
InLoop == pc = "loop" /\ idx <= Len(scenes_df)
row == scenes_df[idx]

\* if row["path_row"] in selected_path_rows: continue
SkipSelected ==
    /\ InLoop
    /\ AlreadySelected(row)
    /\ idx' = idx + 1
    /\ UNCHANGED <<stages, inputs, history, returned, pc, scenes_df, selected_path_rows, best_rows>>

DiscardAndStop ==
    /\ InLoop
    /\ ~AlreadySelected(row)
    /\ OutOfRange(row)
    /\ delete_out_range
    /\ idx' = Len(scenes_df) + 1
    /\ UNCHANGED <<stages, inputs, history, returned, pc, scenes_df, selected_path_rows, best_rows>>

\* the span is exceeded and delete_out_range is set: continue
DiscardOutOfRange ==
    /\ InLoop
    /\ ~AlreadySelected(row)
    /\ OutOfRange(row)
    /\ delete_out_range
    /\ idx' = idx + 1
    /\ UNCHANGED <<stages, inputs, history, returned, pc, scenes_df, selected_path_rows, best_rows>>

\* the code after the loop: the final coverage and the returned dictionary
Return ==
    /\ total_coverage_percent' = FinalCoverage(best_rows)
    /\ scenes_needed' = best_rows
    /\ pc' = "done"

BreakAsContinue ==
    /\ InLoop
    /\ ~AlreadySelected(row)
    /\ OutOfRange(row)
    /\ ~delete_out_range
    /\ idx' = idx + 1
    /\ UNCHANGED <<stages, inputs, history, returned, pc, scenes_df, selected_path_rows, best_rows>>

\* the span is exceeded and delete_out_range is not set: break
BreakOutOfRange ==
    /\ InLoop
    /\ ~AlreadySelected(row)
    /\ OutOfRange(row)
    /\ ~delete_out_range
    /\ Return
    /\ UNCHANGED <<stages, inputs, history, scenes_df, idx, selected_path_rows, best_rows>>

\* selected_path_rows.add(row["path_row"]); best_rows.append(row)
Commit ==
    /\ InLoop
    /\ ~AlreadySelected(row)
    /\ ~OutOfRange(row)
    /\ selected_path_rows' = selected_path_rows \cup {features[row].path_row}
    /\ best_rows' = Append(best_rows, row)
    /\ idx' = idx + 1
    /\ UNCHANGED <<stages, inputs, history, returned, pc, scenes_df>>

\* the sorted list is exhausted
Finish ==
    /\ pc = "loop"
    /\ idx > Len(scenes_df)
    /\ Return
    /\ UNCHANGED <<stages, inputs, history, scenes_df, idx, selected_path_rows, best_rows>>

\* the selector is run again on the same catalog, polygon and parameters
Rerun ==
    /\ pc \in {"done", "failed"}
    /\ calls < MaxCalls
    /\ prev_result' = Result
    /\ calls' = calls + 1
    /\ pc' = "start"
    /\ UNCHANGED <<stages, inputs, locals, returned>>

Next ==
    \/ RaiseNoFeatures
    \/ RaiseEmpty
    \/ SortScenes
    \/ SkipSelected
    \/ DiscardOutOfRange
    \/ BreakOutOfRange
    \/ Commit
    \/ Finish

Spec == Init /\ [][Next]_vars

NextRerun ==
    \/ Next
    \/ Rerun

\* repeated calls are explored for the polygon that fills the plane
InitRerun == Init /\ polygon = Cells

SpecRerun == InitRerun /\ [][NextRerun]_vars

\* ---- the selection is over ----
SelectorLocalsIdle ==
    /\ polygon = Cells
    /\ min_area = DefaultMinArea
    /\ window_days = DefaultWindowDays
    /\ delete_out_range = TRUE
    /\ caller = "process_metadata"
    /\ sort_order = <<>>
    /\ pc = "done"
    /\ scenes_df = <<>>
    /\ idx = 0
    /\ selected_path_rows = {}
    /\ best_rows = <<>>
    /\ total_coverage_percent = 0
    /\ calls = 1
    /\ prev_result = NoResult

SelectorIdle ==
    /\ SelectorLocalsIdle
    /\ features = <<>>
    /\ scenes_needed = <<>>

\* ---- build_mosaic_per_band (src/src/landsat/mosaic.py) ----
\* The grid of the band is a row of pixels.  A source file is known by its cloud
\* cover and by the pixels it has data for; a file's id is its index in
\* band_files.  The raster engine (GDAL, in process or as the command line tool)
\* is a collaborator: each of its calls succeeds or raises, whatever its input.
Pixels == 1..NumPixels
CloudCovers == {5, 15, 30}
BandFile == [cloud : CloudCovers, extent : (SUBSET Pixels) \ {{}}]
BandFileLists == UNION {[1..n -> BandFile] : n \in 0..MaxSources}
NoData == 0

outside_mosaic == <<selector_vars, resolver_vars, download_vars, clip_vars,
                    run_stages>>

\* sorted(band_files, key=lambda x: x[1]): ascending cloud cover; Python's sort is
\* stable, files of equal cloud cover keep the order of band_files
SortedByCloud(files, p) ==
    \A a, b \in 1..Len(files) : a < b =>
        \/ files[p[a]].cloud < files[p[b]].cloud
        \/ files[p[a]].cloud = files[p[b]].cloud /\ p[a] < p[b]

sorted(files) == CHOOSE p \in Permutations_(Len(files)) : SortedByCloud(files, p)

\* The virtual mosaic gdal.BuildVRT (and gdalbuildvrt -input_file_list) makes of a
\* list of files: the sources are drawn one over the other in the order of the
\* list, so a pixel that several files have data for is read from the file listed
\* last; a pixel that no file has data for is nodata.
BuildVRT(files, order) ==
    [p \in Pixels |->
        LET covering == {k \in 1..Len(order) : p \in files[order[k]].extent}
        IN  IF covering = {} THEN NoData ELSE order[Max(covering)]]

InitMosaic ==
    /\ RunIdle
    /\ SelectorIdle
    /\ ResolverIdle
    /\ DownloadIdle
    /\ ClipIdle
    /\ band_files \in BandFileLists
    /\ sorted_files = <<>>
    /\ mpc = "start"
    /\ engine_calls = <<>>
    /\ vrt = NoFile
    /\ output_mosaic = NoFile

\* makedirs; sorted_files = sorted(...); the list file is written in that order
SortFiles ==
    /\ mpc = "start"
    /\ sorted_files' = sorted(band_files)
    /\ mpc' = "build_vrt"
    /\ UNCHANGED <<outside_mosaic, band_files, engine_calls, vrt, output_mosaic>>

ExceptAlways(ok) == TRUE

\* try: <in-process call> except Exception: the handler runs when the call raised
ExceptTaken(ok) == ~ok

\* try: gdal.BuildVRT(vrt_path, [archivo for archivo, _ in sorted_files], ...)
CallBuildVRT ==
    /\ mpc = "build_vrt"
    /\ \E ok \in BOOLEAN :
        /\ engine_calls' = Append(engine_calls, [call |-> "gdal.BuildVRT", ok |-> ok])
        /\ vrt' = IF ok THEN BuildVRT(band_files, sorted_files) ELSE vrt
        /\ mpc' = IF ExceptTaken(ok) THEN "build_vrt_except" ELSE "translate"
    /\ UNCHANGED <<outside_mosaic, band_files, sorted_files, output_mosaic>>

\* except Exception: subprocess.run(cmd, shell=True, check=True) with the
\* gdalbuildvrt command; check=True raises when the tool fails
RunGdalbuildvrt ==
    /\ mpc = "build_vrt_except"
    /\ \E ok \in BOOLEAN :
        /\ engine_calls' = Append(engine_calls, [call |-> "gdalbuildvrt", ok |-> ok])
        /\ vrt' = IF ok THEN BuildVRT(band_files, sorted_files) ELSE vrt
        /\ mpc' = IF ok THEN "translate" ELSE "raised"
    /\ UNCHANGED <<outside_mosaic, band_files, sorted_files, output_mosaic>>

\* try: gdal.Translate(output_mosaic, vrt_path, ...); return output_mosaic
CallTranslate ==
    /\ mpc = "translate"
    /\ \E ok \in BOOLEAN :
        /\ engine_calls' = Append(engine_calls, [call |-> "gdal.Translate", ok |-> ok])
        /\ output_mosaic' = IF ok THEN vrt ELSE output_mosaic
        /\ mpc' = IF ExceptTaken(ok) THEN "translate_except" ELSE "returned"
    /\ UNCHANGED <<outside_mosaic, band_files, sorted_files, vrt>>

\* except Exception: subprocess.run(cmd, shell=True, check=True) with the
\* gdal_translate command; return output_mosaic
RunGdalTranslate ==
    /\ mpc = "translate_except"
    /\ \E ok \in BOOLEAN :
        /\ engine_calls' = Append(engine_calls, [call |-> "gdal_translate", ok |-> ok])
        /\ output_mosaic' = IF ok THEN vrt ELSE output_mosaic
        /\ mpc' = IF ok THEN "returned" ELSE "raised"
    /\ UNCHANGED <<outside_mosaic, band_files, sorted_files, vrt>>

NextMosaic ==
    \/ SortFiles
    \/ CallBuildVRT
    \/ RunGdalbuildvrt
    \/ CallTranslate
    \/ RunGdalTranslate

SpecMosaic == InitMosaic /\ [][NextMosaic]_vars

\* ---- determine_required_bands (src/src/landsat/downloader.py) ----
MaxIndices == 3
\* the names the function has a branch for, and one it has none for
KnownIndices == {"NDVI", "NDWI", "NDSI", "BSI", "LST"}
IndexNames == KnownIndices \cup {"EVI"}
IndexLists == UNION {[1..n -> IndexNames] : n \in 0..MaxIndices}

outside_resolver == <<selector_vars, mosaic_vars, download_vars, clip_vars,
                      run_stages>>

\* the dictionary the branch of an index passes to required_bands.update; a
\* name without a branch updates nothing
branch(index) ==
    CASE index = "NDVI" -> [B4 |-> "sr", B5 |-> "sr"]
      [] index = "NDWI" -> [B3 |-> "sr", B5 |-> "sr"]
      [] index = "NDSI" -> [B3 |-> "sr", B6 |-> "sr"]
      [] index = "BSI" -> [B2 |-> "sr", B4 |-> "sr", B5 |-> "sr", B6 |-> "sr"]
      [] index = "LST" -> [B10 |-> "st"]
      [] OTHER -> EmptyDict

keep_last(d, t) == t

\* dict.update: the keys of t are set to t's values, the other keys of d stay
update(d, t) ==
    [b \in (DOMAIN d) \cup (DOMAIN t) |-> IF b \in DOMAIN t THEN t[b] ELSE d[b]]

\* for index in selected_indices: ... required_bands.update({...})
RECURSIVE for_index(_, _)
for_index(indices, d) ==
    IF indices = <<>> THEN d
    ELSE for_index(Tail(indices), update(d, branch(Head(indices))))

never_empty(d) == FALSE

\* if required_bands: ... else: raise Exception(...)
is_empty(d) == DOMAIN d = {}

\* get_required_bands_for_index of src/src/landsat/indices.py:
\* index_requirements.get(index_name, {})
index_requirements ==
    [NDVI |-> [B4 |-> "sr", B5 |-> "sr"],
     NDWI |-> [B3 |-> "sr", B5 |-> "sr"],
     NDSI |-> [B3 |-> "sr", B6 |-> "sr"],
     BSI |-> [B2 |-> "sr", B4 |-> "sr", B5 |-> "sr", B6 |-> "sr"],
     LST |-> [B10 |-> "st"]]

get_required_bands_for_index(index_name) ==
    IF index_name \in DOMAIN index_requirements
    THEN index_requirements[index_name]
    ELSE EmptyDict

InitResolver ==
    /\ RunIdle
    /\ SelectorIdle
    /\ MosaicIdle
    /\ DownloadIdle
    /\ ClipIdle
    /\ selected_indices \in IndexLists
    /\ required_bands = EmptyDict
    /\ rpc = "start"

\* the loop has left required_bands with a key: return required_bands
ReturnBands ==
    /\ rpc = "start"
    /\ ~is_empty(for_index(selected_indices, EmptyDict))
    /\ required_bands' = for_index(selected_indices, EmptyDict)
    /\ rpc' = "returned"
    /\ UNCHANGED <<outside_resolver, selected_indices>>

\* the loop has left required_bands empty: raise Exception("No se encontraron
\* indices seleccionados.")
RaiseNoIndices ==
    /\ rpc = "start"
    /\ is_empty(for_index(selected_indices, EmptyDict))
    /\ rpc' = "raised"
    /\ UNCHANGED <<outside_resolver, selected_indices, required_bands>>

NextResolver ==
    \/ ReturnBands
    \/ RaiseNoIndices

SpecResolver == InitResolver /\ [][NextResolver]_vars

\* ---- download_data (src/src/controllers/landsat_controller.py) ----
\* The part of download_data before download_images: the bands are determined
\* and the scenes of a collection that is needed and not selected are looked up.
\* A feature's id is its index in features; a scene carries the id, path, row and
\* date of its feature (cloud_cover and coverage_percent are carried along and
\* take no part in the pairing).
MaxFeatures == 3
Collections == {"landsat-c2l2-sr", "landsat-c2l2-st"}
StacFeature == [collection : Collections, path_row : PathRows, date : 0..MaxDate]
StacCatalogs == UNION {[1..n -> StacFeature] : n \in 0..MaxFeatures}
\* the index lists the stage is explored for
IndexChoices == {<<>>, <<"NDVI">>, <<"LST">>, <<"NDVI", "LST">>}

\* what analyze_coverage can have returned for a catalog: at least one scene,
\* scenes of distinct path_rows, in any order
Selections(cat) ==
    {sel \in UNION {[1..n -> 1..Len(cat)] : n \in 1..Cardinality(PathRows)} :
        \A a, b \in 1..Len(sel) : a # b => cat[sel[a]].path_row # cat[sel[b]].path_row}

\* the dictionary analyze_coverage returns for a scene (it has no collection)
scene_of(f) == [id |-> f, path_row |-> features[f].path_row, date |-> features[f].date]

outside_download == <<polygon, min_area, window_days, delete_out_range, caller,
                      sort_order, pc, locals, total_coverage_percent, history,
                      mosaic_vars, selected_indices, rpc, clip_vars, run_stages>>

\* any(collection.lower() == 'sr' for band, collection in required_bands.items())
need(d, suffix) == \E b \in DOMAIN d : d[b] = suffix

\* 'sr' in collection.lower(), 'st' in collection.lower()
in_collection(suffix, collection) ==
    \/ suffix = "sr" /\ collection = "landsat-c2l2-sr"
    \/ suffix = "st" /\ collection = "landsat-c2l2-st"

\* for scene in scenes: if 'collection' not in scene: the collection of the
\* feature of the same id
with_collection(scs) ==
    [k \in 1..Len(scs) |->
        [id |-> scs[k].id, path_row |-> scs[k].path_row, date |-> scs[k].date,
         collection |-> features[scs[k].id].collection]]

of_collection(scs, suffix) ==
    LET Test(s) == in_collection(suffix, s.collection)
    IN  SelectSeq(scs, Test)

searched_selected == scenes_needed

\* [f for f in features if ...]: the list that is searched
searched == [k \in 1..Len(features) |-> k]

\* matching_st_features / matching_sr_features: the features of the collection
\* with the scene's path, row and date
matching(scene, suffix) ==
    LET Test(f) == /\ in_collection(suffix, features[f].collection)
                   /\ features[f].path_row = scene.path_row
                   /\ features[f].date = scene.date
    IN  SelectSeq(searched, Test)

\* for st_feature in matching_st_features: ... if not any(s.get('id') ==
\* st_scene['id'] for s in scenes): scenes.append(st_scene)
RECURSIVE add_matching(_, _, _, _)
add_matching(scs, found, scene, collection) ==
    IF found = <<>> THEN scs
    ELSE LET new == [id |-> Head(found), path_row |-> scene.path_row,
                     date |-> scene.date, collection |-> collection]
             known == \E k \in 1..Len(scs) : scs[k].id = new.id
         IN  add_matching(IF known THEN scs ELSE Append(scs, new),
                          Tail(found), scene, collection)

\* for sr_scene in sr_scenes: / for st_scene in st_scenes:
RECURSIVE for_scene(_, _, _, _)
for_scene(scs, todo, suffix, collection) ==
    IF todo = <<>> THEN scs
    ELSE for_scene(add_matching(scs, matching(Head(todo), suffix), Head(todo), collection),
                   Tail(todo), suffix, collection)

\* lines 43-135: the scenes after both "needed but not selected" blocks
reconciled(d, scs) ==
    LET enriched == with_collection(scs)
        sr_scenes == of_collection(enriched, "sr")
        st_scenes == of_collection(enriched, "st")
        with_st == IF need(d, "st") /\ st_scenes = <<>>
                   THEN for_scene(enriched, sr_scenes, "st", "landsat-c2l2-st")
                   ELSE enriched
        \* st_scenes with the scenes the first block appended to it
        st_scenes_now == of_collection(with_st, "st")
    IN  IF need(d, "sr") /\ sr_scenes = <<>>
        THEN for_scene(with_st, st_scenes_now, "sr", "landsat-c2l2-sr")
        ELSE with_st

InitDownload ==
    /\ RunIdle
    /\ SelectorLocalsIdle
    /\ MosaicIdle
    /\ ClipIdle
    /\ features \in StacCatalogs
    /\ scenes_needed \in Selections(features)
    /\ scenes = [k \in 1..Len(scenes_needed) |-> scene_of(scenes_needed[k])]
    /\ selected_indices \in IndexChoices
    /\ required_bands = EmptyDict
    /\ rpc = "idle"
    /\ dpc = "start"

\* required_bands = determine_required_bands(indices) raises
RaiseInDownload ==
    /\ dpc = "start"
    /\ is_empty(for_index(selected_indices, EmptyDict))
    /\ dpc' = "raised"
    /\ UNCHANGED <<outside_download, features, scenes_needed, required_bands, scenes>>

\* lines 40-142: the bands are determined, the scenes get their collection and
\* the scenes of a needed collection none was selected of are appended
ReconcileCollections ==
    /\ dpc = "start"
    /\ ~is_empty(for_index(selected_indices, EmptyDict))
    /\ required_bands' = for_index(selected_indices, EmptyDict)
    /\ scenes' = reconciled(required_bands', scenes)
    /\ dpc' = "download"
    /\ UNCHANGED <<outside_download, features, scenes_needed>>

NextDownload ==
    \/ RaiseInDownload
    \/ ReconcileCollections

SpecDownload == InitDownload /\ [][NextDownload]_vars

\* ---- extract_mosaic_by_polygon and the clip loop (src/src/landsat/mosaic.py) ----
\* A raster's grid (height, width, transform) is a run of cells of a line, in the
\* coordinates of its CRS.  A mosaic file is its CRS and its cells; a clip file
\* says which band's pixels it holds, on which cells, and for which of them the
\* pixel was kept (the others are nodata); a mask file has its cells and the
\* cells set to 1.  The area of interest is a set of cells in the coordinates of
\* its own CRS, each cell a geometry.  Going from one CRS to the other moves the
\* coordinates by one cell.
NumBands == 2
GridCells == 3
CRSs == {"EPSG:4326", "EPSG:32618"}
Intervals == {a..b : a, b \in 1..GridCells} \ {{}}
MosaicFiles(raster_crs) == [crs : {raster_crs}, cells : Intervals]
PolygonFiles == [crs : CRSs, cells : SUBSET (1..GridCells), source_file : BOOLEAN]

outside_clip == <<selector_vars, mosaic_vars, resolver_vars, download_vars,
                  run_stages>>

\* the mosaic the loop is at
mosaic == processed_mosaics[band]

\* gpd.read_file(polygon_path)
read_file(file) == [crs |-> file.crs, cells |-> file.cells]

\* GeoDataFrame.to_crs(raster_crs): a new frame with the coordinates of raster_crs
to_crs(gdf, raster_crs) ==
    [crs |-> raster_crs,
     cells |-> IF gdf.crs = raster_crs THEN gdf.cells
               ELSE IF raster_crs = "EPSG:32618" THEN {x + 1 : x \in gdf.cells}
               ELSE {x - 1 : x \in gdf.cells}]

is_path_row_mode_by_name(file, gdf) == ~file.source_file

\* is_path_row_mode: the frame is empty or all its geometries are, or the name
\* of the polygon file does not start with "source_file"
is_path_row_mode(file, gdf) ==
    \/ gdf.cells = {}
    \/ ~file.source_file

intersects_always(gdf, m) == TRUE

\* any geometry of the frame intersects the box of the raster's bounds
intersects(gdf, m) == gdf.cells \cap m.cells # {}

\* shutil.copy(mosaic_path, output_file)
copy(m, b) == [band |-> b, crs |-> m.crs, cells |-> m.cells, valid |-> m.cells]

\* np.ones((src.height, src.width)) written with the mosaic's meta
full_mask(m) == [crs |-> m.crs, cells |-> m.cells, ones |-> m.cells]

\* mask(src, geometries, crop=True, all_touched=True): the window is the box of
\* the geometries cut to the raster; pixels outside the geometries are nodata
window(m, gdf) == {x \in m.cells : Min(gdf.cells) <= x /\ x <= Max(gdf.cells)}
crop(m, gdf, b) ==
    [band |-> b, crs |-> m.crs, cells |-> window(m, gdf),
     valid |-> gdf.cells \cap window(m, gdf)]

crop_mask_of_mosaic(m, gdf) ==
    [crs |-> m.crs, cells |-> m.cells, ones |-> gdf.cells \cap m.cells]

\* np.zeros of the crop's shape, every geometry rasterized as 1 with
\* out_transform, written with out_meta: the mask has the crop's grid
crop_mask(m, gdf) ==
    [crs |-> m.crs, cells |-> window(m, gdf), ones |-> gdf.cells \cap window(m, gdf)]

InitClip ==
    /\ RunIdle
    /\ SelectorIdle
    /\ MosaicIdle
    /\ ResolverIdle
    /\ DownloadIdle
    /\ \E raster_crs \in CRSs :
           processed_mosaics \in
               UNION {[1..n -> MosaicFiles(raster_crs)] : n \in 1..NumBands}
    /\ polygon_file \in PolygonFiles
    /\ poligono_gdf = NoFile
    /\ clip_files = [b \in 1..Len(processed_mosaics) |-> NoFile]
    /\ mask_file = NoFile
    /\ created_clips = {}
    /\ band = 1
    /\ cpc = "loop"

\* for band, mosaic_path in processed_mosaics.items(): the mosaic is opened for
\* its CRS and bounds and the polygon is read (lines 22-43)
ReadInputs ==
    /\ cpc = "loop"
    /\ band <= Len(processed_mosaics)
    /\ poligono_gdf' = read_file(polygon_file)
    /\ cpc' = "mode_detect"
    /\ UNCHANGED <<outside_clip, processed_mosaics, polygon_file, clip_files,
                   mask_file, created_clips, band>>

\* lines 45-77: path/row mode, the mosaic is copied and the mask is all ones
PathRowMode ==
    /\ cpc = "mode_detect"
    /\ is_path_row_mode(polygon_file, poligono_gdf)
    /\ clip_files' = [clip_files EXCEPT ![band] = copy(mosaic, band)]
    /\ mask_file' = full_mask(mosaic)
    /\ created_clips' = created_clips \cup {band}
    /\ band' = band + 1
    /\ cpc' = "loop"
    /\ UNCHANGED <<outside_clip, processed_mosaics, polygon_file, poligono_gdf>>

ReprojectInPlace ==
    /\ cpc = "mode_detect"
    /\ ~is_path_row_mode(polygon_file, poligono_gdf)
    /\ poligono_gdf' = to_crs(poligono_gdf, mosaic.crs)
    /\ polygon_file' = [polygon_file EXCEPT !.crs = poligono_gdf'.crs,
                                            !.cells = poligono_gdf'.cells]
    /\ cpc' = "intersection_check"
    /\ UNCHANGED <<outside_clip, processed_mosaics, clip_files, mask_file,
                   created_clips, band>>

\* lines 45-88: not path/row mode; if poligono_crs != raster_crs:
\* poligono_gdf = poligono_gdf.to_crs(raster_crs)
Reproject ==
    /\ cpc = "mode_detect"
    /\ ~is_path_row_mode(polygon_file, poligono_gdf)
    /\ poligono_gdf' = IF poligono_gdf.crs # mosaic.crs
                       THEN to_crs(poligono_gdf, mosaic.crs)
                       ELSE poligono_gdf
    /\ cpc' = "intersection_check"
    /\ UNCHANGED <<outside_clip, processed_mosaics, polygon_file, clip_files,
                   mask_file, created_clips, band>>

\* lines 90-124: no geometry intersects the raster, the mosaic is copied and the
\* mask is all ones
NoIntersection ==
    /\ cpc = "intersection_check"
    /\ ~intersects(poligono_gdf, mosaic)
    /\ clip_files' = [clip_files EXCEPT ![band] = copy(mosaic, band)]
    /\ mask_file' = full_mask(mosaic)
    /\ created_clips' = created_clips \cup {band}
    /\ band' = band + 1
    /\ cpc' = "loop"
    /\ UNCHANGED <<outside_clip, processed_mosaics, polygon_file, poligono_gdf>>

\* lines 125-191: the crop and its mask are written and the path is returned;
\* or mask() raises (it does when the geometries' box misses the raster), the
\* exception is caught, None is returned and the loop goes on
Clip ==
    /\ cpc = "intersection_check"
    /\ intersects(poligono_gdf, mosaic)
    /\ \E raises \in BOOLEAN :
        /\ window(mosaic, poligono_gdf) = {} => raises
        /\ IF raises
           THEN UNCHANGED <<clip_files, mask_file, created_clips>>
           ELSE /\ clip_files' = [clip_files EXCEPT ![band] = crop(mosaic, poligono_gdf, band)]
                /\ mask_file' = crop_mask(mosaic, poligono_gdf)
                /\ created_clips' = created_clips \cup {band}
    /\ band' = band + 1
    /\ cpc' = "loop"
    /\ UNCHANGED <<outside_clip, processed_mosaics, polygon_file, poligono_gdf>>

NextClip ==
    \/ ReadInputs
    \/ PathRowMode
    \/ Reproject
    \/ NoIntersection
    \/ Clip

SpecClip == InitClip /\ [][NextClip]_vars

\* ---- generate_mosaics (src/src/controllers/landsat_controller.py) ----
\* The generator of the controller and generate_mosaics_and_clips of mosaic.py
\* run the same two loops; only the controller looks at stop_requested, and only
\* it yields between that look and the band's operation.  The band keys of
\* sorted_bands are 1..total_bands in the order of the dictionary.  A band
\* operation (build_mosaic_per_band, extract_mosaic_by_polygon) is a
\* collaborator here: it writes its file and returns its path, or it fails.
MaxBandKeys == 3

Entries == {"generate_mosaics", "generate_mosaics_and_clips"}
BandKeys == 1..total_bands
\* mosaic_<band>.tif and clip_<band>.tif
Files == {"mosaic", "clip"} \X BandKeys

outside_generate == <<selector_vars, mosaic_vars, resolver_vars, download_vars,
                      clip_vars, window_vars, scan_vars, indices_vars,
                      images_vars, workers_vars>>

Finished == gpc \in {"returned", "cancelled", "raised"}

InitGenerate ==
    /\ SelectorIdle
    /\ MosaicIdle
    /\ ResolverIdle
    /\ DownloadIdle
    /\ ClipIdle
    /\ WindowIdle
    /\ ScanIdle
    /\ IndicesIdle
    /\ ImagesIdle
    /\ WorkersIdle
    /\ entry \in Entries
    /\ total_bands \in 0..MaxBandKeys
    /\ left_over \in SUBSET Files
    /\ stop_requested = FALSE
    /\ gpc = "start"
    /\ band_i = 0
    /\ mosaicos = <<>>
    /\ recortes = <<>>
    /\ written = [f \in Files |-> 0]
    /\ outcome = [f \in Files |-> "none"]
    /\ after_stop = {}
    /\ results = NoFile

\* ProcessingController.stop, called from another thread at any moment
Stop ==
    /\ entry = "generate_mosaics"
    /\ ~Finished
    /\ ~stop_requested
    /\ stop_requested' = TRUE
    /\ UNCHANGED <<outside_generate, entry, total_bands, left_over, gpc, band_i,
                   mosaicos, recortes, written, outcome, after_stop, results>>

\* no polygon file in data/temp/source
RaiseNoPolygon ==
    /\ gpc = "start"
    /\ gpc' = "raised"
    /\ UNCHANGED <<outside_generate, entry, total_bands, left_over, stop_requested,
                   band_i, mosaicos, recortes, written, outcome, after_stop, results>>

\* the polygon is found and the downloaded bands are listed
Prepare ==
    /\ gpc = "start"
    /\ IF total_bands = 0
       THEN gpc' = "raised" /\ band_i' = band_i
       ELSE gpc' = "mosaic_head" /\ band_i' = 1
    /\ UNCHANGED <<outside_generate, entry, total_bands, left_over, stop_requested,
                   mosaicos, recortes, written, outcome, after_stop, results>>

\* if self.stop_requested: yield ...; return
cancelled == entry = "generate_mosaics" /\ stop_requested

\* the head of the mosaic loop, up to the yield that announces the band
MosaicHead ==
    /\ gpc = "mosaic_head"
    /\ band_i <= total_bands
    /\ gpc' = IF cancelled THEN "cancelled" ELSE "mosaic_build"
    /\ UNCHANGED <<outside_generate, entry, total_bands, left_over, stop_requested,
                   band_i, mosaicos, recortes, written, outcome, after_stop, results>>

\* the band operations started although stop_requested held
started(f) == IF stop_requested THEN after_stop \cup {f} ELSE after_stop

\* if mosaic_path and os.path.exists(mosaic_path): the test is reached only when
\* build_mosaic_per_band returned, and then it has written the file
mosaic_on_disk(ok, f) == ok \/ f \in left_over

mosaic_created(ok, f) == ok

BuildMosaicOrRaise ==
    /\ gpc = "mosaic_build"
    /\ \E ok \in BOOLEAN :
        LET f == <<"mosaic", band_i>>
        IN  /\ outcome' = [outcome EXCEPT ![f] = IF ok THEN "ok" ELSE "failed"]
            /\ written' = [written EXCEPT ![f] = IF ok THEN @ + 1 ELSE @]
            /\ mosaicos' = IF mosaic_created(ok, f) THEN Append(mosaicos, band_i)
                           ELSE mosaicos
            /\ after_stop' = started(f)
            /\ gpc' = IF ok THEN "mosaic_head" ELSE "raised"
    /\ band_i' = band_i + 1
    /\ UNCHANGED <<outside_generate, entry, total_bands, left_over, stop_requested,
                   recortes, results>>

\* build_mosaic_per_band for the band, inside the loop's try
BuildMosaic ==
    /\ gpc = "mosaic_build"
    /\ \E ok \in BOOLEAN :
        LET f == <<"mosaic", band_i>>
        IN  /\ outcome' = [outcome EXCEPT ![f] = IF ok THEN "ok" ELSE "failed"]
            /\ written' = [written EXCEPT ![f] = IF ok THEN @ + 1 ELSE @]
            /\ mosaicos' = IF mosaic_created(ok, f) THEN Append(mosaicos, band_i)
                           ELSE mosaicos
            /\ after_stop' = started(f)
    /\ band_i' = band_i + 1
    /\ gpc' = "mosaic_head"
    /\ UNCHANGED <<outside_generate, entry, total_bands, left_over, stop_requested,
                   recortes, results>>

\* after the mosaic loop: if not processed_mosaics: raise
MosaicsDone ==
    /\ gpc = "mosaic_head"
    /\ band_i > total_bands
    /\ IF mosaicos = <<>>
       THEN gpc' = "raised" /\ band_i' = band_i
       ELSE gpc' = "clip_head" /\ band_i' = 1
    /\ UNCHANGED <<outside_generate, entry, total_bands, left_over, stop_requested,
                   mosaicos, recortes, written, outcome, after_stop, results>>

\* the head of the clip loop over processed_mosaics
ClipHead ==
    /\ gpc = "clip_head"
    /\ band_i <= Len(mosaicos)
    /\ gpc' = IF cancelled THEN "cancelled" ELSE "clip_build"
    /\ UNCHANGED <<outside_generate, entry, total_bands, left_over, stop_requested,
                   band_i, mosaicos, recortes, written, outcome, after_stop, results>>

\* extract_mosaic_by_polygon for the band's mosaic: None is a failure
ClipMosaic ==
    /\ gpc = "clip_build"
    /\ \E ok \in BOOLEAN :
        LET f == <<"clip", mosaicos[band_i]>>
        IN  /\ outcome' = [outcome EXCEPT ![f] = IF ok THEN "ok" ELSE "failed"]
            /\ written' = [written EXCEPT ![f] = IF ok THEN @ + 1 ELSE @]
            /\ recortes' = IF ok THEN Append(recortes, mosaicos[band_i]) ELSE recortes
            /\ after_stop' = started(f)
    /\ band_i' = band_i + 1
    /\ gpc' = "clip_head"
    /\ UNCHANGED <<outside_generate, entry, total_bands, left_over, stop_requested,
                   mosaicos, results>>

\* the results dictionary; it is returned whether or not the JSON file was saved
ReturnResults ==
    /\ gpc = "clip_head"
    /\ band_i > Len(mosaicos)
    /\ results' = [mosaicos |-> mosaicos, recortes |-> recortes]
    /\ gpc' = "returned"
    /\ UNCHANGED <<outside_generate, entry, total_bands, left_over, stop_requested,
                   band_i, mosaicos, recortes, written, outcome, after_stop>>

NextGenerate ==
    \/ Stop
    \/ RaiseNoPolygon
    \/ Prepare
    \/ MosaicHead
    \/ BuildMosaic
    \/ MosaicsDone
    \/ ClipHead
    \/ ClipMosaic
    \/ ReturnResults

SpecGenerate == InitGenerate /\ [][NextGenerate]_vars

\* ---- the window and its two threads (src/src/ui/interface.py) ----
\* A thread drives a generator with next(); what a generator does at a next() is
\* the controller's business: it yields a message, ends, or raises.  Signals
\* cross from the thread to the main thread through the event queue, so a slot
\* runs some time after the emit, in the order of the emits.  A plain message
\* only adds text to the results panel, which is not part of the state here: its
\* emit is counted in the thread's record and no slot is queued for it.
MaxThreads == 3     \* threads started in one session of the window
MaxMessages == 2    \* messages a generator yields before it ends or raises

outside_window == <<selector_vars, mosaic_vars, resolver_vars, download_vars,
                    clip_vars, generate_vars, scan_vars,
                    indices_vars, images_vars, workers_vars>>

\* a thread right after start(): n counts the messages of the generator it is
\* driving, the flags record what it has emitted
Thread(kind) ==
    [kind |-> kind, tpc |-> IF kind = "first" THEN "fetch" ELSE "mosaics", n |-> 0,
     mosaic_error |-> FALSE, error |-> FALSE, index_started |-> FALSE,
     success |-> FALSE]

Running(t) == threads[t].tpc # "finished"

\* MapAppWindow.__init__: the calculate button starts disabled
InitWindow ==
    /\ SelectorIdle
    /\ MosaicIdle
    /\ ResolverIdle
    /\ DownloadIdle
    /\ ClipIdle
    /\ GenerateIdle
    /\ ScanIdle
    /\ IndicesIdle
    /\ ImagesIdle
    /\ WorkersIdle
    /\ process_button = TRUE
    /\ calculate_button = FALSE
    /\ threads = <<>>
    /\ signals = <<>>

\* process_data when a check of the form fails: it returns before the thread
ProcessDataInvalid ==
    /\ process_button
    /\ calculate_button' = FALSE
    /\ UNCHANGED <<outside_window, process_button, threads, signals>>

\* process_data, a click on the enabled process button
ProcessData ==
    /\ process_button
    /\ Len(threads) < MaxThreads
    /\ calculate_button' = FALSE
    /\ process_button' = FALSE
    /\ threads' = Append(threads, Thread("first"))
    /\ UNCHANGED <<outside_window, signals>>

\* calculate_indices of the window, a click on the enabled calculate button
CalculateIndices ==
    /\ calculate_button
    /\ Len(threads) < MaxThreads
    /\ calculate_button' = FALSE
    /\ process_button' = FALSE
    /\ threads' = Append(threads, Thread("second"))
    /\ UNCHANGED <<outside_window, signals>>

\* a generator yields a message: result_ready.emit(message)
EmitMessage ==
    \E t \in 1..Len(threads) :
        /\ Running(t)
        /\ threads[t].n < MaxMessages
        /\ threads' = [threads EXCEPT ![t].n = @ + 1]
        /\ UNCHANGED <<outside_window, process_button, calculate_button, signals>>

\* ProcessThread.run: fetch_data ends, download_data is driven next
FetchEnds ==
    \E t \in 1..Len(threads) :
        /\ threads[t].tpc = "fetch"
        /\ threads' = [threads EXCEPT ![t].tpc = "download", ![t].n = 0]
        /\ UNCHANGED <<outside_window, process_button, calculate_button, signals>>

\* ProcessThread.run: download_data ends, the last emit is (message, True)
DownloadEnds ==
    \E t \in 1..Len(threads) :
        /\ threads[t].tpc = "download"
        /\ threads' = [threads EXCEPT ![t].tpc = "finished"]
        /\ signals' = Append(signals, "result_ready")
        /\ UNCHANGED <<outside_window, process_button, calculate_button>>

\* ProcessThread.run: a generator raises, the last emit is error_occurred
FirstRaises ==
    \E t \in 1..Len(threads) :
        /\ threads[t].tpc \in {"fetch", "download"}
        /\ threads' = [threads EXCEPT ![t].tpc = "finished", ![t].error = TRUE]
        /\ signals' = Append(signals, "error_occurred")
        /\ UNCHANGED <<outside_window, process_button, calculate_button>>

\* what _process_generator leaves behind when the generator raised: it emits
\* error_occurred and returns to run as it does when the generator ended
process_generator(raised) ==
    IF raised THEN Append(signals, "second_error_occurred") ELSE signals

\* SecondProcessThread.run: _process_generator of generate_mosaics returns, the
\* index stage is announced and its generator made
MosaicStageEnds ==
    \E t \in 1..Len(threads) :
        /\ threads[t].tpc = "mosaics"
        /\ \E raised \in BOOLEAN :
            /\ threads' = [threads EXCEPT ![t].tpc = "indices", ![t].n = 0,
                                          ![t].mosaic_error = raised,
                                          ![t].error = raised,
                                          ![t].index_started = TRUE]
            /\ signals' = process_generator(raised)
        /\ UNCHANGED <<outside_window, process_button, calculate_button>>

\* SecondProcessThread.run: _process_generator of calculate_indices returns, the
\* final message is emitted, run returns and the thread emits finished
IndexStageEnds ==
    \E t \in 1..Len(threads) :
        /\ threads[t].tpc = "indices"
        /\ \E raised \in BOOLEAN :
            /\ threads' = [threads EXCEPT ![t].tpc = "finished",
                                          ![t].error = @ \/ raised,
                                          ![t].success = TRUE]
            /\ signals' = Append(process_generator(raised), "finished")
        /\ UNCHANGED <<outside_window, process_button, calculate_button>>

\* the slot of the oldest signal in the queue
\* handle_result for a tuple whose second element is True
HandleResult ==
    /\ signals # <<>> /\ Head(signals) = "result_ready"
    /\ process_button' = TRUE
    /\ calculate_button' = TRUE
    /\ signals' = Tail(signals)
    /\ UNCHANGED <<outside_window, threads>>

HandleError ==
    /\ signals # <<>> /\ Head(signals) = "error_occurred"
    /\ process_button' = TRUE
    /\ signals' = Tail(signals)
    /\ UNCHANGED <<outside_window, calculate_button, threads>>

HandleSecondError ==
    /\ signals # <<>> /\ Head(signals) = "second_error_occurred"
    /\ process_button' = TRUE
    /\ calculate_button' = TRUE
    /\ signals' = Tail(signals)
    /\ UNCHANGED <<outside_window, threads>>

OnIndicesCalculationFinished ==
    /\ signals # <<>> /\ Head(signals) = "finished"
    /\ process_button' = TRUE
    /\ calculate_button' = TRUE
    /\ signals' = Tail(signals)
    /\ UNCHANGED <<outside_window, threads>>

NextWindow ==
    \/ ProcessDataInvalid
    \/ ProcessData
    \/ CalculateIndices
    \/ EmitMessage
    \/ FetchEnds
    \/ DownloadEnds
    \/ FirstRaises
    \/ MosaicStageEnds
    \/ IndexStageEnds
    \/ HandleResult
    \/ HandleError
    \/ HandleSecondError
    \/ OnIndicesCalculationFinished

SpecWindow == InitWindow /\ [][NextWindow]_vars

\* ---- get_scenes_by_band (src/src/landsat/mosaic.py) ----
\* One band key: every scene folder holds one file of it.  A folder's metadata
\* is absent (no *MTL.json), unreadable (not JSON), without the CLOUD_COVER field,
\* or it gives a cloud cover.
MaxSceneDirs == 3
AssumedCloudCover == 100    \* cloud_cover = 100 when get_cloud_cover raised

\* Python's None, the value get_cloud_cover returns from its except branch
None == 0 - 1

SceneDir ==
    [mtl : {"absent", "unreadable", "no_field"}, cloud : {0}]
        \cup [mtl : {"ok"}, cloud : CloudCovers]
SceneDirLists == UNION {[1..n -> SceneDir] : n \in 0..MaxSceneDirs}

outside_scan == <<selector_vars, mosaic_vars, resolver_vars, download_vars,
                  clip_vars, generate_vars, window_vars, indices_vars,
                  images_vars, workers_vars>>

\* get_cloud_cover raises only when the folder has no *MTL.json
cloud_cover_raises(d) == d.mtl = "absent"

\* what get_cloud_cover returns when it does: the float of the field, or None
\* from the except branch that catches the failed read
get_cloud_cover(d) == IF d.mtl = "ok" THEN d.cloud ELSE None

\* try: cloud_cover = get_cloud_cover(scene_dir) / except: cloud_cover = 100
cloud_cover(d) ==
    IF cloud_cover_raises(d) THEN AssumedCloudCover ELSE get_cloud_cover(d)

\* sorted(band_files, key=lambda x: x[1]) compares the keys of neighbours: with
\* two files or more, a None among the keys raises TypeError
comparable(files) ==
    Len(files) < 2 \/ \A k \in 1..Len(files) : files[k].cloud # None

InitScan ==
    /\ SelectorIdle
    /\ MosaicIdle
    /\ ResolverIdle
    /\ DownloadIdle
    /\ ClipIdle
    /\ GenerateIdle
    /\ WindowIdle
    /\ IndicesIdle
    /\ ImagesIdle
    /\ WorkersIdle
    /\ scene_dirs \in SceneDirLists
    /\ scan_i = 1
    /\ scanned = <<>>
    /\ spc = "scan"
    /\ scan_order = <<>>

\* one turn of the loop over the scene folders
ScanSceneDir ==
    /\ spc = "scan"
    /\ scan_i <= Len(scene_dirs)
    /\ scanned' = Append(scanned, [scene |-> scan_i,
                                   cloud |-> cloud_cover(scene_dirs[scan_i])])
    /\ scan_i' = scan_i + 1
    /\ UNCHANGED <<outside_scan, scene_dirs, spc, scan_order>>

\* if not sorted_bands: raise
RaiseNoBandFiles ==
    /\ spc = "scan"
    /\ scan_i > Len(scene_dirs)
    /\ scanned = <<>>
    /\ spc' = "raised"
    /\ UNCHANGED <<outside_scan, scene_dirs, scan_i, scanned, scan_order>>

\* return sorted_bands: the list goes to build_mosaic_per_band
ReturnSortedBands ==
    /\ spc = "scan"
    /\ scan_i > Len(scene_dirs)
    /\ scanned # <<>>
    /\ spc' = "sort"
    /\ UNCHANGED <<outside_scan, scene_dirs, scan_i, scanned, scan_order>>

\* sorted_files = sorted(band_files, key=lambda x: x[1])
SortBandFiles ==
    /\ spc = "sort"
    /\ IF comparable(scanned)
       THEN spc' = "sorted" /\ scan_order' = sorted(scanned)
       ELSE spc' = "type_error" /\ scan_order' = scan_order
    /\ UNCHANGED <<outside_scan, scene_dirs, scan_i, scanned>>

NextScan ==
    \/ ScanSceneDir
    \/ RaiseNoBandFiles
    \/ ReturnSortedBands
    \/ SortBandFiles

SpecScan == InitScan /\ [][NextScan]_vars

\* ---- process_indices_from_cutouts (src/src/landsat/indices.py) ----
\* The clips folder holds clip_<band>_<collection>.tif of some bands; the window
\* hands over the checked indices, each name once.  Reading the bands and
\* computing, drawing and saving an index is one step that succeeds or raises.
ClipBands == {"B2", "B3", "B4", "B5", "B6", "B10"}
CheckedIndices ==
    {l \in UNION {[1..n -> KnownIndices] : n \in 0..MaxIndices} :
        \A a, b \in 1..Len(l) : a # b => l[a] # l[b]}

outside_indices == <<selector_vars, mosaic_vars, resolver_vars, download_vars,
                     clip_vars, generate_vars, window_vars, scan_vars,
                     images_vars, workers_vars>>

\* find_band_files: the second pattern, clip_<band>_*.tif, finds the band's clip
\* of whatever collection; the underscore keeps B1 from finding B10
find_band_files(b) == b \in clip_bands

\* missing_bands of an index: the required bands find_band_files has no file for
missing_bands(index) ==
    {b \in DOMAIN get_required_bands_for_index(index) : ~find_band_files(b)}

\* the indices of a list that satisfy a test, in the order of the list
RECURSIVE filter_indices(_, _)
filter_indices(l, keep) ==
    IF l = <<>> THEN <<>>
    ELSE IF Head(l) \in keep
         THEN <<Head(l)>> \o filter_indices(Tail(l), keep)
         ELSE filter_indices(Tail(l), keep)

InitIndices ==
    /\ SelectorIdle
    /\ MosaicIdle
    /\ DownloadIdle
    /\ ClipIdle
    /\ GenerateIdle
    /\ WindowIdle
    /\ ScanIdle
    /\ ImagesIdle
    /\ WorkersIdle
    /\ selected_indices \in CheckedIndices
    /\ required_bands = EmptyDict
    /\ rpc = "idle"
    /\ clip_bands \in SUBSET ClipBands
    /\ calculable_indices = <<>>
    /\ missing_bands_info = <<>>
    /\ output_files = <<>>
    /\ ipc = "check"
    /\ index_i = 0
    /\ attempted = {}
    /\ computed = {}

\* the loop that sorts the indices into calculable ones and ones with missing
\* bands
CheckBands ==
    /\ ipc = "check"
    /\ LET names == {selected_indices[k] : k \in 1..Len(selected_indices)}
           complete == {index \in names : missing_bands(index) = {}}
       IN  /\ calculable_indices' = filter_indices(selected_indices, complete)
           /\ missing_bands_info' =
                  [index \in names \ complete |-> missing_bands(index)]
    /\ ipc' = "checked"
    /\ UNCHANGED <<outside_indices, clip_bands, output_files, index_i, attempted,
                   computed>>

any_missing == DOMAIN missing_bands_info # {}

\* if not calculable_indices
none_calculable == calculable_indices = <<>>

\* return {}
ReturnNothing ==
    /\ ipc = "checked"
    /\ none_calculable
    /\ ipc' = "returned"
    /\ UNCHANGED <<outside_indices, clip_bands, calculable_indices,
                   missing_bands_info, output_files, index_i, attempted, computed>>

StartLoop ==
    /\ ipc = "checked"
    /\ ~none_calculable
    /\ ipc' = "loop"
    /\ index_i' = 1
    /\ UNCHANGED <<outside_indices, clip_bands, calculable_indices,
                   missing_bands_info, output_files, attempted, computed>>

\* one turn of the loop over calculable_indices: output_files[index] gets its
\* paths first; the statistics are added when nothing raised
ComputeIndex ==
    /\ ipc = "loop"
    /\ index_i <= Len(calculable_indices)
    /\ LET index == calculable_indices[index_i]
       IN  /\ attempted' = attempted \cup {index}
           /\ \E raises \in BOOLEAN :
                /\ output_files' =
                       [n \in (DOMAIN output_files) \cup {index} |->
                           IF n # index THEN output_files[n]
                           ELSE IF raises \/ missing_bands(index) # {}
                                THEN "paths" ELSE "stats"]
                /\ computed' = IF raises \/ missing_bands(index) # {}
                               THEN computed ELSE computed \cup {index}
    /\ index_i' = index_i + 1
    /\ UNCHANGED <<outside_indices, clip_bands, calculable_indices,
                   missing_bands_info, ipc>>

\* registro_indices.json is written and output_files returned
ReturnOutputFiles ==
    /\ ipc = "loop"
    /\ index_i > Len(calculable_indices)
    /\ ipc' = "returned"
    /\ UNCHANGED <<outside_indices, clip_bands, calculable_indices,
                   missing_bands_info, output_files, index_i, attempted, computed>>

NextIndices ==
    \/ CheckBands
    \/ ReturnNothing
    \/ StartLoop
    \/ ComputeIndex
    \/ ReturnOutputFiles

SpecIndices == InitIndices /\ [][NextIndices]_vars

\* ---- download_images (src/src/landsat/downloader.py) ----
\* download_data hands its scenes to download_images, which groups them by path,
\* row and date and walks each group.  The bands of a collection are taken as
\* one unit: a download from a feature gets all of them or leaves some missing.
\* An attempt made with a URL built from the ST scene's has feature 0.
outside_images == <<polygon, min_area, window_days, delete_out_range, caller,
                    sort_order, pc, locals, total_coverage_percent, history,
                    mosaic_vars, selected_indices, rpc, clip_vars, generate_vars,
                    window_vars, scan_vars, indices_vars, workers_vars>>

\* key = f"{scene['path']}_{scene['row']}_{scene['date']}"
group_key(scene) == <<scene.path_row, scene.date>>

\* scene_groups[key]
group_scenes(scs, key) ==
    LET Test(s) == group_key(s) = key
    IN  SelectSeq(scs, Test)

\* group_scenes.sort(key=lambda x: 0 if <suffix> in collection else 1): the
\* scenes of the collection first, each part in its order
sort_first(scs, suffix) ==
    LET First(s) == in_collection(suffix, s.collection)
        Rest(s) == ~in_collection(suffix, s.collection)
    IN  SelectSeq(scs, First) \o SelectSeq(scs, Rest)

\* find_matching_feature: the first feature of the collection with the path, row
\* and date; 0 when there is none
find_matching_feature(key, suffix) ==
    LET found == {f \in 1..Len(features) :
                     /\ in_collection(suffix, features[f].collection)
                     /\ <<features[f].path_row, features[f].date>> = key}
    IN  IF found = {} THEN 0 ELSE Min(found)

\* the bands of a collection that are required and not yet downloaded are tried
\* from a feature; got tells whether that download gets them all
try_bands(st, d, key, f, suffix, got) ==
    IF need(d, suffix) /\ ~st.info[suffix]
    THEN [info |-> [st.info EXCEPT ![suffix] = got],
          tried |-> st.tried \cup {<<key, f, suffix>>}]
    ELSE st

\* the body of "for scene in group_scenes" for one scene
process_scene(st, d, key, scene, succeeds, built) ==
    LET f == scene.id
        after_sr == IF in_collection("sr", scene.collection)
                    THEN try_bands(st, d, key, f, "sr", succeeds[f])
                    ELSE st
    IN  IF in_collection("st", scene.collection)
        THEN LET after_st == try_bands(after_sr, d, key, f, "st", succeeds[f])
                 matching_sr == find_matching_feature(key, "sr")
             IN  IF matching_sr # 0
                 THEN try_bands(after_st, d, key, matching_sr, "sr",
                                succeeds[matching_sr])
                 ELSE try_bands(after_st, d, key, 0, "sr", built)
        ELSE after_sr

RECURSIVE process_group(_, _, _, _, _, _)
process_group(st, d, key, group, succeeds, built) ==
    IF group = <<>> THEN st
    ELSE process_group(process_scene(st, d, key, Head(group), succeeds, built),
                       d, key, Tail(group), succeeds, built)

\* downloaded_band_info = {band: False for band in required_bands}, per group
download_group(d, scs, key, succeeds, built) ==
    process_group([info |-> [suffix \in {"sr", "st"} |-> FALSE], tried |-> {}],
                  d, key,
                  sort_first(group_scenes(scs, key),
                             IF need(d, "st") THEN "st" ELSE "sr"),
                  succeeds, built).tried

\* login_usgs fails
LoginFails ==
    /\ dpc = "download"
    /\ dpc' = "raised"
    /\ UNCHANGED <<outside_images, features, scenes_needed, required_bands, scenes,
                   attempts>>

\* download_images: every group in turn
DownloadImages ==
    /\ dpc = "download"
    /\ \E succeeds \in [1..Len(features) -> BOOLEAN], built \in BOOLEAN :
        attempts' = UNION {download_group(required_bands, scenes, group_key(scenes[k]),
                                          succeeds, built) : k \in 1..Len(scenes)}
    /\ dpc' = "done"
    /\ UNCHANGED <<outside_images, features, scenes_needed, required_bands, scenes>>

NextImages ==
    \/ RaiseInDownload
    \/ ReconcileCollections
    \/ LoginFails
    \/ DownloadImages

SpecImages == InitDownload /\ [][NextImages]_vars

\* ---- the band operations side by side (src/src/landsat/mosaic.py) ----
\* One worker per band runs build_mosaic_per_band and then
\* extract_mosaic_by_polygon for its band; the steps of different workers
\* interleave freely.  A file's content is told by what it was made of: its
\* kind, the band and the grid of the band's source files.  Writing a file that
\* no other worker has open is one step; aoi_mask.tif is opened and closed in
\* two steps, and a write that met another write of the same file may leave it
\* torn.
RasterGrids == {"grid_a", "grid_b"}
Workers == 1..NumBands

outside_workers == <<selector_vars, mosaic_vars, resolver_vars, download_vars,
                     clip_vars, generate_vars, window_vars, scan_vars,
                     indices_vars, images_vars>>

shared_list_file(b) == <<"filelist", 0>>

\* list_file, vrt_path and output_mosaic of build_mosaic_per_band; output_file
\* and mask_file of extract_mosaic_by_polygon.  A name without a band has 0.
list_file(b) == <<"filelist", b>>
vrt_path(b) == <<"vrt", b>>
mosaic_path(b) == <<"mosaic", b>>
clip_path(b) == <<"clip", b>>
aoi_mask == <<"aoi_mask", 0>>

\* the names a file of the two output folders can have
WorkFiles == {"filelist", "vrt", "mosaic", "clip", "aoi_mask"} \X (0..NumBands)

Absent == <<"none", 0, "none">>
Torn == <<"torn", 0, "none">>
content(kind, b) == <<kind, b, grids[b]>>
\* the mask is cut on the grid of the clip it is written with
mask_content(b) == <<"mask", 0, grids[b]>>

InitWorkers ==
    /\ SelectorIdle
    /\ MosaicIdle
    /\ ResolverIdle
    /\ DownloadIdle
    /\ ClipIdle
    /\ GenerateIdle
    /\ WindowIdle
    /\ ScanIdle
    /\ IndicesIdle
    /\ ImagesIdle
    /\ grids \in [Workers -> RasterGrids]
    /\ wpc = [b \in Workers |-> "list"]
    /\ disk = [f \in WorkFiles |-> Absent]
    /\ writers = [f \in WorkFiles |-> {}]
    /\ mask_open = {}
    /\ overlapped = {}

\* worker b writes file f with content c and moves on
write(b, f, c, next) ==
    /\ disk' = [disk EXCEPT ![f] = c]
    /\ writers' = [writers EXCEPT ![f] = @ \cup {b}]
    /\ wpc' = [wpc EXCEPT ![b] = next]
    /\ UNCHANGED <<outside_workers, grids, mask_open, overlapped>>

\* with open(list_file, 'w')
WriteListFile ==
    \E b \in Workers :
        /\ wpc[b] = "list"
        /\ write(b, list_file(b), content("filelist", b), "vrt")

\* gdal.BuildVRT(vrt_path, ...)
WriteVRT ==
    \E b \in Workers :
        /\ wpc[b] = "vrt"
        /\ disk[list_file(b)] # Absent
        /\ write(b, vrt_path(b), <<"vrt", disk[list_file(b)][2],
                                   disk[list_file(b)][3]>>, "translate")

\* gdal.Translate(output_mosaic, vrt_path, ...)
WriteMosaic ==
    \E b \in Workers :
        /\ wpc[b] = "translate"
        /\ write(b, mosaic_path(b), <<"mosaic", disk[vrt_path(b)][2],
                                      disk[vrt_path(b)][3]>>, "clip")

\* extract_mosaic_by_polygon: the clip is written from the band's mosaic
WriteClip ==
    \E b \in Workers :
        /\ wpc[b] = "clip"
        /\ write(b, clip_path(b), <<"clip", disk[mosaic_path(b)][2],
                                    disk[mosaic_path(b)][3]>>, "mask")

\* rasterio.open(mask_file, "w", ...)
OpenMask ==
    \E b \in Workers :
        /\ wpc[b] = "mask"
        /\ mask_open' = mask_open \cup {b}
        /\ overlapped' = IF mask_open = {} THEN overlapped
                         ELSE overlapped \cup mask_open \cup {b}
        /\ writers' = [writers EXCEPT ![aoi_mask] = @ \cup {b}]
        /\ wpc' = [wpc EXCEPT ![b] = "mask_open"]
        /\ UNCHANGED <<outside_workers, grids, disk>>

\* dest.write(mask_array, 1) and the end of the with block
CloseMask ==
    \E b \in Workers :
        /\ wpc[b] = "mask_open"
        /\ \E c \in {mask_content(b), Torn} :
            /\ c = Torn => b \in overlapped
            /\ disk' = [disk EXCEPT ![aoi_mask] = c]
        /\ mask_open' = mask_open \ {b}
        /\ wpc' = [wpc EXCEPT ![b] = "done"]
        /\ UNCHANGED <<outside_workers, grids, writers, overlapped>>

NextWorkers ==
    \/ WriteListFile
    \/ WriteVRT
    \/ WriteMosaic
    \/ WriteClip
    \/ OpenMask
    \/ CloseMask

SpecWorkers == InitWorkers /\ [][NextWorkers]_vars

\* ---- properties ----
Rows == 1..Len(features)
Selected == Range(scenes_needed)
PathRowOf(f) == features[f].path_row
InterArea(f) == Cardinality(polygon \cap features[f].footprint)
\* the rows whose share of the polygon is at least min_area percent
Passing == {f \in Rows : 100 * InterArea(f) >= min_area * Cardinality(polygon)}
DistinctPathRows(S) == \A a, b \in S : a # b => PathRowOf(a) # PathRowOf(b)
DateSpan(S) == IF S = {} THEN 0
               ELSE Max({features[f].date : f \in S}) - Min({features[f].date : f \in S})
CoveredCells(S) == polygon \cap UNION {features[f].footprint : f \in S}
CoveredPercent(S) == (100 * Cardinality(CoveredCells(S))) \div Cardinality(polygon)
Prefix(k) == {scenes_needed[j] : j \in 1..k}

\* C1: the rows committed so far, and the returned selection, never hold two
\* scenes of the same path_row; this is true in every state of the greedy loop.
C1_OnePerPathRow ==
    /\ Len(best_rows) = Cardinality(Range(best_rows))
    /\ DistinctPathRows(Range(best_rows))
    /\ Len(scenes_needed) = Cardinality(Selected)
    /\ DistinctPathRows(Selected)

\* a finished run that selected two scenes and passed over a third scene of an
\* already selected path_row
C1_Witness ==
    /\ pc = "done"
    /\ Len(scenes_needed) = 2
    /\ \E f \in Range(scenes_df) \ Selected : PathRowOf(f) \in selected_path_rows

\* C2: with delete_out_range = false the returned selection spans at most
\* window_days days.
C2_SpanWithinWindow ==
    (pc = "done" /\ ~delete_out_range) => DateSpan(Selected) <= window_days

\* a run without delete_out_range that stopped at a candidate of another day
C2_Witness ==
    /\ pc = "done"
    /\ ~delete_out_range
    /\ Selected # {}
    /\ idx <= Len(scenes_df)
    /\ DateSpan(Selected \cup {scenes_df[idx]}) > window_days

\* C3: no set of filter-passing scenes with distinct path_rows and a span within
\* window_days covers more of the polygon than the returned selection.
C3_MaximalCoverage ==
    pc = "done" =>
        \A S \in SUBSET Passing :
            (DistinctPathRows(S) /\ DateSpan(S) <= window_days)
                => CoveredPercent(S) <= total_coverage_percent

\* C4: a scene disjoint from the polygon is never selected, and process_metadata
\* on a catalog of disjoint scenes fails instead of selecting.
AllDisjoint == \A f \in Rows : InterArea(f) = 0
C4_DisjointExcluded ==
    /\ \A f \in Range(best_rows) : InterArea(f) > 0
    /\ (caller = "process_metadata" /\ features # <<>> /\ AllDisjoint)
          => pc \in {"start", "failed"}

\* C5: the returned coverage is 100 * area(polygon /\ union of the selected
\* footprints) / area(polygon), lies in 0..100 and is at least the coverage of
\* every prefix of the selection.
C5_CoverageOfUnion ==
    pc = "done" =>
        /\ total_coverage_percent = CoveredPercent(Selected)
        /\ total_coverage_percent \in 0..100
        /\ \A k \in 0..Len(scenes_needed) :
              CoveredPercent(Prefix(k)) <= total_coverage_percent
        /\ \A k \in 1..Len(scenes_needed) :
              CoveredPercent(Prefix(k - 1)) <= CoveredPercent(Prefix(k))

\* two selected scenes that overlap inside the polygon, one of them covering
\* only a part of it
C5_Witness ==
    /\ pc = "done"
    /\ total_coverage_percent = 100
    /\ \E f, g \in Selected :
          /\ f # g
          /\ CoveredCells({f}) \cap CoveredCells({g}) # {}
          /\ CoveredCells({f}) # polygon

\* C6: when the filter-passing scenes lie within window_days of one another,
\* the selection holds exactly one scene of every path_row among them, each of
\* the least cloud cover of its path_row; when moreover every path_row has one
\* footprint and these footprints together contain the polygon, the coverage is 100.
AllWithinWindow ==
    \A f, g \in Passing : features[f].date - features[g].date <= window_days
FootprintPerPathRow ==
    \A f, g \in Passing : PathRowOf(f) = PathRowOf(g)
                             => features[f].footprint = features[g].footprint
C6_BestOfEachPathRow ==
    (pc = "done" /\ AllWithinWindow) =>
        /\ Selected \subseteq Passing
        /\ \A f \in Passing : Cardinality({s \in Selected : PathRowOf(s) = PathRowOf(f)}) = 1
        /\ \A s \in Selected : \A f \in Passing :
              PathRowOf(f) = PathRowOf(s) => features[s].cloud <= features[f].cloud
        /\ (FootprintPerPathRow /\ CoveredCells(Passing) = polygon)
              => total_coverage_percent = 100

\* path_row A with a clearer and a cloudier scene, path_row B with one scene,
\* neither footprint containing the polygon, both together containing it
C6_Witness ==
    /\ pc = "done"
    /\ AllWithinWindow
    /\ FootprintPerPathRow
    /\ Cardinality(Passing) = 3
    /\ Cardinality(Selected) = 2
    /\ \E f, g \in Passing : PathRowOf(f) = PathRowOf(g) /\ features[f].cloud < features[g].cloud
    /\ \A s \in Selected : CoveredCells({s}) # polygon
    /\ total_coverage_percent = 100

\* C7: rows of equal cloud cover are considered in catalog order, and of two
\* filter-passing scenes of one path_row and equal cloud cover the one earlier
\* in the catalog is the one selected.
C7_StableTieBreak ==
    /\ \A a, b \in 1..Len(scenes_df) :
          (a < b /\ features[scenes_df[a]].cloud = features[scenes_df[b]].cloud)
              => scenes_df[a] < scenes_df[b]
    /\ pc = "done" =>
          \A s \in Selected : \A f \in Passing :
              (PathRowOf(f) = PathRowOf(s) /\ features[f].cloud = features[s].cloud)
                  => s <= f

AtOutOfRangeCandidate ==
    /\ pc = "loop"
    /\ idx <= Len(scenes_df)
    /\ PathRowOf(scenes_df[idx]) \notin selected_path_rows
    /\ DateSpan(Range(best_rows) \cup {scenes_df[idx]}) > window_days
C9_Step ==
    AtOutOfRangeCandidate =>
        IF delete_out_range
        THEN /\ pc' = "loop"
             /\ idx' = idx + 1
             /\ best_rows' = best_rows
             /\ selected_path_rows' = selected_path_rows
        ELSE /\ pc' = "done"
             /\ scenes_needed' = best_rows
             /\ \A k \in idx..Len(scenes_df) : scenes_df[k] \notin Range(scenes_needed')
C9_OutOfRangePolicy == [][C9_Step]_vars

\* the loop stopped at a candidate although a later row, of a path_row not
\* selected, lies within the window
C9_Witness ==
    /\ pc = "done"
    /\ ~delete_out_range
    /\ idx < Len(scenes_df)
    /\ \E k \in (idx + 1)..Len(scenes_df) :
          /\ PathRowOf(scenes_df[k]) \notin selected_path_rows
          /\ DateSpan(Selected \cup {scenes_df[k]}) <= window_days

\* C10: every sorted, committed or returned scene overlaps at least min_area
\* percent of the polygon, and the returned coverage counts no cell that only
\* scenes below min_area cover.
C10_AtLeastMinArea ==
    /\ Range(scenes_df) \cup Range(best_rows) \cup Selected \subseteq Passing
    /\ pc = "done" => total_coverage_percent <= CoveredPercent(Passing)

\* a selection made while the catalog holds a scene that overlaps the polygon
\* by less than min_area percent
C10_Witness ==
    /\ pc = "done"
    /\ Selected # {}
    /\ \E f \in Rows : InterArea(f) > 0 /\ f \notin Passing

\* ---- properties of build_mosaic_per_band ----
\* the files that have data for pixel p
Covering(p) == {k \in 1..Len(band_files) : p \in band_files[k].extent}
LowestCloud(p) == Min({band_files[k].cloud : k \in Covering(p)})

\* C11: in the mosaic build_mosaic_per_band returns, a pixel that two or more
\* source files have data for comes from a file of the lowest cloud cover among
\* them.
C11_LowestCloudOnTop ==
    mpc = "returned" =>
        \A p \in Pixels :
            Cardinality(Covering(p)) >= 2 =>
                band_files[output_mosaic[p]].cloud = LowestCloud(p)

\* C12: called with an empty list, build_mosaic_per_band fails with NoSourceFiles
\* before any engine call and reports no mosaic path.
C12_NoSourceFiles ==
    band_files = <<>> =>
        /\ engine_calls = <<>>
        /\ mpc \in {"start", "raised_NoSourceFiles"}
        /\ output_mosaic = NoFile

InProcessOf(call) ==
    IF call = "gdalbuildvrt" THEN "gdal.BuildVRT" ELSE "gdal.Translate"
IsTool(call) == call \in {"gdalbuildvrt", "gdal_translate"}

\* C13: in either engine step the out-of-process tool runs only right after the
\* in-process call of that step raised, never after it succeeded, and the
\* function raises only when the tool of a step has failed as well.
C13_FallbackOnlyAfterRaise ==
    /\ \A k \in 1..Len(engine_calls) :
           IsTool(engine_calls[k].call) =>
               /\ k > 1
               /\ engine_calls[k - 1].call = InProcessOf(engine_calls[k].call)
               /\ ~engine_calls[k - 1].ok
    /\ \A k \in 1..Len(engine_calls) :
           (~IsTool(engine_calls[k].call) /\ ~engine_calls[k].ok /\ mpc \in {"returned", "raised"}) =>
               /\ k < Len(engine_calls)
               /\ IsTool(engine_calls[k + 1].call)
    /\ mpc = "raised" =>
           /\ IsTool(engine_calls[Len(engine_calls)].call)
           /\ ~engine_calls[Len(engine_calls)].ok

\* both steps fell back to the tool and the mosaic was returned
C13_Witness ==
    /\ mpc = "returned"
    /\ band_files # <<>>
    /\ Len(engine_calls) = 4
    /\ engine_calls[2].call = "gdalbuildvrt"
    /\ engine_calls[4].call = "gdal_translate"

\* ---- properties of determine_required_bands ----
Names == Range(selected_indices)
AllKnown == Names \subseteq KnownIndices
\* the (band, collection) pairs of a dictionary
Pairs(d) == {<<b, d[b]>> : b \in DOMAIN d}
\* the union of the tables get_required_bands_for_index has for a set of names
UnionOfTables(names) == UNION {Pairs(get_required_bands_for_index(n)) : n \in names}

C15_UnionForEveryList ==
    (AllKnown /\ rpc # "start") =>
        /\ rpc = "returned"
        /\ Pairs(required_bands) = UnionOfTables(Names)

\* C15: for every non-empty list of recognised names the function returns the
\* union of the per-index tables of get_required_bands_for_index, one collection
\* per band, and the same dictionary as for any other list of the same names
\* (the empty list raises instead).
C15_UnionOfTables ==
    (AllKnown /\ selected_indices # <<>> /\ rpc # "start") =>
        /\ rpc = "returned"
        /\ Pairs(required_bands) = UnionOfTables(Names)
        /\ \A l \in IndexLists :
               Range(l) = Names => for_index(l, EmptyDict) = required_bands

\* three names, one of them twice, and bands of both collections
C15_Witness ==
    /\ rpc = "returned"
    /\ AllKnown
    /\ Len(selected_indices) = 3
    /\ Cardinality(Names) = 2
    /\ "LST" \in Names
    /\ Cardinality(DOMAIN required_bands) >= 3

\* ---- properties of download_data ----
SelectedFeatures == Range(scenes_needed)
\* the bands need the collection and no selected scene is of it
NeededNotSelected(suffix) ==
    /\ need(required_bands, suffix)
    /\ \A f \in SelectedFeatures : ~in_collection(suffix, features[f].collection)
\* feature g is of the collection and has the path, row and date of feature f
Counterpart(f, g, suffix) ==
    /\ in_collection(suffix, features[g].collection)
    /\ features[g].path_row = features[f].path_row
    /\ features[g].date = features[f].date
InScenes(g, suffix) ==
    \E k \in 1..Len(scenes) : scenes[k].id = g /\ in_collection(suffix, scenes[k].collection)

\* C16: when the required bands need a collection none of the selected scenes is
\* of, every feature of the catalog that is of that collection and has the path,
\* row and date of a selected scene is in the scenes handed to the download.
C16_CounterpartsAdded ==
    dpc = "download" =>
        \A suffix \in {"sr", "st"} :
            NeededNotSelected(suffix) =>
                \A f \in SelectedFeatures, g \in 1..Len(features) :
                    Counterpart(f, g, suffix) => InScenes(g, suffix)

\* LST was asked for, only SR scenes were selected and two ST features of the
\* catalog were added
C16_Witness ==
    /\ dpc = "download"
    /\ NeededNotSelected("st")
    /\ Len(scenes) >= Len(scenes_needed) + 2

\* ---- properties of extract_mosaic_by_polygon ----
\* the bands the loop is through with
Processed == 1..(band - 1)
\* the area of interest in the coordinates of mosaic m
Reprojected(m) == to_crs(read_file(polygon_file), m.crs).cells
\* band b came out as the unchanged mosaic
PassedThrough(b) ==
    /\ b \in created_clips
    /\ clip_files[b] = copy(processed_mosaics[b], b)
    /\ b = band - 1 => mask_file = full_mask(processed_mosaics[b])

\* C17: with an empty polygon extract_mosaic_by_polygon takes the path/row
\* branch, never the reprojection, the intersection check or the crop: the clip
\* is the unchanged mosaic and the mask has the mosaic's grid, all ones.
C17_EmptyPolygonPassThrough ==
    polygon_file.cells = {} =>
        /\ cpc \in {"loop", "mode_detect"}
        /\ \A b \in Processed : PassedThrough(b)

\* a band went through with an empty polygon in a file named source_file...
C17_Witness ==
    /\ polygon_file.cells = {}
    /\ polygon_file.source_file
    /\ Processed # {}

\* the intersection check was reached for band b and found nothing: the
\* polygon is a drawn one and, in the mosaic's CRS, misses the mosaic
MissesMosaic(b) ==
    /\ polygon_file.source_file
    /\ polygon_file.cells # {}
    /\ Reprojected(processed_mosaics[b]) \cap processed_mosaics[b].cells = {}

\* C18: when no geometry of the (reprojected) polygon intersects the mosaic's
\* bounds, the band does not fail and is not cropped: a path is returned, the
\* clip is the unchanged mosaic and the mask has the mosaic's grid, all ones.
C18_DisjointPassThrough ==
    \A b \in Processed : MissesMosaic(b) => PassedThrough(b)

\* a band went through whose polygon, of the other CRS, misses the mosaic
C18_Witness ==
    /\ Processed # {}
    /\ MissesMosaic(band - 1)
    /\ polygon_file.crs # processed_mosaics[band - 1].crs

C19_Step ==
    /\ processed_mosaics' = processed_mosaics
    /\ polygon_file' = polygon_file
    /\ cpc' = "intersection_check" =>
           /\ poligono_gdf'.crs = processed_mosaics[band].crs
           /\ poligono_gdf'.cells = Reprojected(processed_mosaics[band])

\* C19: no step of extract_mosaic_by_polygon writes the mosaic or the polygon
\* file, whichever path is taken; when the CRS differ it is the frame in memory
\* that gets the mosaic's CRS and the coordinates of that CRS.
C19_MosaicOnlyRead ==
    [][C19_Step]_vars

\* with a polygon of the other CRS one band was cropped and the next one failed
C19_Witness ==
    /\ cpc = "loop"
    /\ band = 3
    /\ poligono_gdf.crs # polygon_file.crs
    /\ created_clips = {1}
    /\ clip_files[1].cells # processed_mosaics[1].cells

SameGrid(f, g) == f.cells = g.cells /\ f.crs = g.crs

Unrepresented == {f \in Passing : \A g \in Selected : PathRowOf(g) # PathRowOf(f)}

\* C28: with delete_out_range set, the returned selection spans at most
\* window_days and every scene that passed the filter and whose path_row is not
\* in the selection would take the span beyond window_days if it were added.
C28_MaximalWithinWindow ==
    (pc = "done" /\ delete_out_range) =>
        /\ DateSpan(Selected) <= window_days
        /\ \A f \in Unrepresented : DateSpan(Selected \cup {f}) > window_days

\* a path_row was left out: two of its scenes passed the filter and both are
\* of another day than the scene selected
C28_Witness ==
    /\ pc = "done"
    /\ delete_out_range
    /\ Selected # {}
    /\ Cardinality(Unrepresented) = 2

\* ---- properties of generate_mosaics ----
Listed(seq) == {seq[k] : k \in 1..Len(seq)}
Attempted(kind) == {b \in BandKeys : outcome[<<kind, b>>] # "none"}
Succeeded(kind) == {b \in BandKeys : outcome[<<kind, b>>] = "ok"}

\* C22: a failing band operation is confined to its band.  A run raises out of
\* the loops only when no band operation succeeded; a run that returns has
\* attempted the mosaic of every band and the clip of every band whose mosaic
\* succeeded, and its results list exactly the bands whose operation succeeded.
C22_FailureConfined ==
    /\ gpc = "raised" => Succeeded("mosaic") = {}
    /\ gpc = "returned" =>
        /\ Attempted("mosaic") = BandKeys
        /\ Listed(mosaicos) = Succeeded("mosaic")
        /\ Attempted("clip") = Succeeded("mosaic")
        /\ Listed(recortes) = Succeeded("clip")

C22_Witness ==
    /\ gpc = "returned"
    /\ total_bands = 3
    /\ outcome[<<"mosaic", 1>>] = "failed"
    /\ outcome[<<"clip", 2>>] = "failed"
    /\ outcome[<<"clip", 3>>] = "ok"

\* C23: once stop() was called no further band's mosaic build or clip starts,
\* and the clip file of a band that was clipped is written once and stays.
C23_NoStartAfterStop ==
    /\ after_stop = {}
    /\ \A b \in Listed(recortes) : written[<<"clip", b>>] = 1

\* C24: within a band the mosaic precedes the clip: a clip is attempted only for
\* a band whose mosaic succeeded, and in the results of a run the bands with a
\* clip are among the bands with a mosaic and every listed band's file was
\* written by this run.
C24_ClipAfterMosaic ==
    /\ Attempted("clip") \subseteq Succeeded("mosaic")
    /\ gpc = "returned" =>
        /\ Listed(results.recortes) \subseteq Listed(results.mosaicos)
        /\ \A b \in Listed(results.mosaicos) : written[<<"mosaic", b>>] >= 1
        /\ \A b \in Listed(results.recortes) : written[<<"clip", b>>] >= 1

C24_Witness ==
    /\ gpc = "returned"
    /\ \E b \in BandKeys :
        /\ outcome[<<"mosaic", b>>] = "failed"
        /\ <<"mosaic", b>> \in left_over
    /\ results.recortes # <<>>
    /\ Listed(results.recortes) # Listed(results.mosaicos)

\* ---- properties of the window and its threads ----
\* C26: from the start of a thread until it has finished both buttons stay
\* disabled, so no two processing threads are running at once.
C26_ButtonsDisabledWhileRunning ==
    /\ \A t \in 1..Len(threads) :
        Running(t) => ~process_button /\ ~calculate_button
    /\ Cardinality({t \in 1..Len(threads) : Running(t)}) <= 1

\* C29: a SecondProcessThread starts the index stage only if the mosaic stage
\* emitted no error, and a run that emitted error_occurred never emits the final
\* success message.
C29_NoSuccessAfterError ==
    \A t \in 1..Len(threads) :
        /\ threads[t].index_started => ~threads[t].mosaic_error
        /\ threads[t].success => ~threads[t].error

\* ---- properties of get_scenes_by_band ----
Undetermined(k) == scene_dirs[k].mtl # "ok"

\* C27: every band file gets a numeric cloud cover, 100 when the folder's cloud
\* cover cannot be determined; the ascending sort never fails and puts those
\* files after the files of known cloud cover.
C27_NumericCloudCover ==
    /\ \A k \in 1..Len(scanned) :
        /\ scanned[k].cloud \in 0..100
        /\ Undetermined(k) => scanned[k].cloud = AssumedCloudCover
    /\ spc # "type_error"
    /\ spc = "sorted" =>
        \A a, b \in 1..Len(scan_order) :
            Undetermined(scan_order[a]) /\ ~Undetermined(scan_order[b]) => b < a

\* ---- properties of process_indices_from_cutouts ----
Requested == {selected_indices[k] : k \in 1..Len(selected_indices)}
BandsPresent(index) ==
    \A b \in DOMAIN index_requirements[index] : b \in clip_bands

\* C25: the calculation of an index is entered only if every band it requires
\* has a clip file.  When the function has returned, a requested index with a
\* missing band was skipped and is not reported, and every requested index whose
\* bands are all present was attempted and is reported, whatever bands the other
\* indices miss; it is complete unless its own calculation raised.
C25_MissingBandSkipsOnlyItsIndex ==
    /\ \A index \in attempted : BandsPresent(index)
    /\ computed \subseteq attempted
    /\ ipc = "returned" =>
        \A index \in Requested :
            IF BandsPresent(index)
            THEN /\ index \in attempted
                 /\ index \in DOMAIN output_files
                 /\ index \in computed <=> output_files[index] = "stats"
            ELSE /\ index \notin attempted
                 /\ index \notin DOMAIN output_files

C25_Witness ==
    /\ ipc = "returned"
    /\ Len(selected_indices) = 3
    /\ ~BandsPresent(selected_indices[1])
    /\ selected_indices[2] \in computed
    /\ BandsPresent(selected_indices[3])
    /\ selected_indices[3] \notin computed

\* ---- properties of download_images ----
CatalogHolds(key, suffix) == find_matching_feature(key, suffix) # 0
TriedFrom(key, suffix) ==
    \E a \in attempts :
        /\ a[1] = key
        /\ a[3] = suffix
        /\ a[2] # 0
        /\ in_collection(suffix, features[a[2]].collection)

\* C30: when the indices need both collections, after the download every
\* selected path, row and date the catalog holds a scene of each collection for
\* has had its bands tried from an SR scene and from an ST scene.
C30_BothCollectionsTried ==
    (dpc = "done" /\ need(required_bands, "sr") /\ need(required_bands, "st")) =>
        \A f \in SelectedFeatures :
            LET key == <<features[f].path_row, features[f].date>>
            IN  (CatalogHolds(key, "sr") /\ CatalogHolds(key, "st")) =>
                    TriedFrom(key, "sr") /\ TriedFrom(key, "st")

\* ---- properties of the band operations side by side ----
AllDone == \A b \in Workers : wpc[b] = "done"
BandFiles(b) == {list_file(b), vrt_path(b), mosaic_path(b), clip_path(b)}
\* what the files hold after the bands have run one after the other, in order
Sequential(f) ==
    IF f = aoi_mask THEN mask_content(NumBands)
    ELSE IF f[2] = 0 THEN Absent
    ELSE content(f[1], f[2])

====
